---- MODULE Spec2Model ----
(***************************************************************************)
(* jwctl: the interactive list-selection widget (src/src/terminal.rs) and  *)
(* the `db login` command that drives it (src/src/main.rs).                *)
(*                                                                         *)
(* Three specifications share the definitions below:                       *)
(*   Spec        the `db login` command of main(), from check_db_token to  *)
(*               the return of main;                                       *)
(*   WidgetSpec  one call of the public function run_list_selection on a   *)
(*               terminal its caller holds in raw mode, for any list;      *)
(*   ListSpec    StatefulList::next / previous / unselect applied in any   *)
(*               order to a list built by StatefulList::with_items.        *)
(*                                                                         *)
(* Option<usize> is an integer, None being -1.  Vec positions are the      *)
(* source's 0-based positions; Sequences are 1-based, so items.get(i) is   *)
(* items[i + 1].                                                           *)
(***************************************************************************)
EXTENDS Integers, Sequences, FiniteSets, TLC

\* ------------------------------------------------------------------ bounds
\* longest candidate list
MaxLen == 3
\* modelled width of usize, in bits
UsizeBits == 8
\* largest index an empty-list run is followed to (wrapping arithmetic)
MaxIdx == 4
\* operations applied in one ListSpec run
MaxOps == 5

\* ------------------------------------------------------------------ values
None == -1
\* result of an operation that panicked (arithmetic overflow, checked build)
Panicked == -2

\* nothing has been drawn yet
NotShown == -3

Candidates == {<<"a", "Alpha">>, <<"b", "Beta">>, <<"c", "Gamma">>}
NoPair == <<"", "">>

RECURSIVE SeqsUpTo(_)
SeqsUpTo(n) ==
    IF n = 0 THEN {<<>>}
    ELSE LET S == SeqsUpTo(n - 1)
         IN  S \cup {Append(s, c) : s \in {t \in S : Len(t) = n - 1}, c \in Candidates}

\* every list a caller of run_list_selection can supply
Lists == SeqsUpTo(MaxLen)

\* the lists main builds from the HashMap check_db_token returns: keys are
\* distinct, the order is the map's iteration order
MapLists == {l \in Lists : \A i, j \in 1..Len(l) : i # j => l[i][1] # l[j][1]}

\* anyhow::Result<(&String, &String)> of run_list_selection, Result<()> of main
NoResult == [tag |-> "none", val |-> NoPair, msg |-> ""]
Ok(v) == [tag |-> "Ok", val |-> v, msg |-> ""]
Err(m) == [tag |-> "Err", val |-> NoPair, msg |-> m]

\* crossterm events: Event::Key(KeyEvent {code, modifiers, kind}) or another
\* kind of event (resize, mouse, focus, paste)
KeyCodes == {"q", "Enter", "Left", "Down", "Up", "c", "x"}
Modifiers == {"NONE", "CONTROL", "CONTROL|SHIFT"}
Kinds == {"Press", "Release", "Repeat"}
NoEvent == [ev |-> "none", code |-> "", modifiers |-> "", kind |-> ""]
OtherEvent == [ev |-> "Other", code |-> "", modifiers |-> "", kind |-> ""]
KeyEvents == [ev : {"Key"}, code : KeyCodes, modifiers : Modifiers, kind : Kinds]
Events == KeyEvents \cup {OtherEvent}

\* ----------------------------------------------------------- usize, lists
UsizeModulus == 2 ^ UsizeBits
UsizeMax == UsizeModulus - 1

\* a - b on usize: panics in a build with overflow checks, wraps otherwise
usize_sub(a, b, checks) ==
    IF a >= b THEN a - b
    ELSE IF checks THEN Panicked
    ELSE (a - b + UsizeModulus) % UsizeModulus

\* StatefulList::next: the new value of state.selected()
\* mutant: `i > len - 1`, the last position is stepped past
next_past_end(its, sel, checks) ==
    IF sel # None
    THEN LET last == usize_sub(Len(its), 1, checks)
         IN  IF last = Panicked THEN Panicked
             ELSE IF sel > last THEN 0
             ELSE sel + 1
    ELSE 0
\* mutant: no wrap, the last position is kept
next_saturating(its, sel, checks) ==
    IF sel # None
    THEN LET last == usize_sub(Len(its), 1, checks)
         IN  IF last = Panicked THEN Panicked
             ELSE IF sel >= last THEN sel
             ELSE sel + 1
    ELSE 0
next(its, sel, checks) ==
    IF sel # None
    THEN LET last == usize_sub(Len(its), 1, checks)
         IN  IF last = Panicked THEN Panicked
             ELSE IF sel >= last THEN 0
             ELSE sel + 1
    ELSE 0

\* StatefulList::previous: the new value of state.selected()
\* mutant: no wrap, position 0 is kept
previous_saturating(its, sel, checks) ==
    IF sel # None
    THEN IF sel = 0 THEN 0
         ELSE sel - 1
    ELSE 0
\* mutant: with nothing selected the last position is selected
previous_none_last(its, sel, checks) ==
    IF sel # None
    THEN IF sel = 0 THEN usize_sub(Len(its), 1, checks)
         ELSE sel - 1
    ELSE usize_sub(Len(its), 1, checks)
previous(its, sel, checks) ==
    IF sel # None
    THEN IF sel = 0 THEN usize_sub(Len(its), 1, checks)
         ELSE sel - 1
    ELSE 0

\* StatefulList::unselect
\* mutant: the selection is left as it is
unselect_keeps(its, sel) == sel
unselect(its, sel) == None

\* Vec::get(i): is there an element at position i
InRange(its, i) == i >= 0 /\ i < Len(its)

\* ------------------------------------------------------------------- state
VARIABLES
    pc,               \* position of the thread of control
    items,            \* list.items, in main also the `items` it passes
    selected,         \* list.state.selected()
    key,              \* the event event::read() returned last
    prevSel,          \* history: list.state.selected() when `key` was dispatched
    shown,            \* history: the selection the last completed draw highlighted
    wres,             \* what run_list_selection returned
    raw_mode,         \* the terminal device is in raw mode
    acquires,         \* successful calls of setup_terminal
    releases,         \* calls of restore_terminal
    mres,             \* what main returned
    approved,         \* db ids sent by approve_db_authentication, in order
    overflow_checks,  \* build: usize overflow panics (debug) or wraps (release)
    render_resets,    \* build: the List widget clears the selection of an empty list
    ops,              \* ListSpec history: operations applied so far
    sels              \* ListSpec history: selection at the start and after each operation

vars == <<pc, items, selected, key, prevSel, shown, wres, raw_mode, acquires, releases,
          mres, approved, overflow_checks, render_resets, ops, sels>>

termVars == <<raw_mode, acquires, releases>>
mainVars == <<mres, approved>>
buildVars == <<overflow_checks, render_resets>>
listVars == <<ops, sels>>

\* indices an empty-list run is followed through
Followed(sel) == sel <= MaxIdx \/ sel >= UsizeMax - MaxIdx

\* --------------------------------------------------------------- main.rs
\* main, DbCommands::Login: the state before command::check_db_token
Init ==
    /\ pc = "check_db_token"
    /\ items = <<>>
    /\ selected = None
    /\ key = NoEvent
    /\ prevSel = None
    /\ shown = NotShown
    /\ wres = NoResult
    /\ raw_mode = FALSE
    /\ acquires = 0
    /\ releases = 0
    /\ mres = NoResult
    /\ approved = <<>>
    /\ overflow_checks \in BOOLEAN
    /\ render_resets \in BOOLEAN
    /\ ops = <<>>
    /\ sels = <<>>

\* let dbs = command::check_db_token(&config, token)?; items; is_empty
\* mutant: the is_empty test is missing
CheckDbToken_no_guard ==
    /\ pc = "check_db_token"
    /\ \/ /\ mres' = Err("check_db_token")
          /\ pc' = "exit"
          /\ UNCHANGED items
       \/ \E l \in MapLists :
            /\ items' = l
            /\ mres' = mres /\ pc' = "setup_terminal"
    /\ UNCHANGED <<selected, key, prevSel, shown, wres, termVars, approved, buildVars, listVars>>
CheckDbToken ==
    /\ pc = "check_db_token"
    /\ \/ /\ mres' = Err("check_db_token")
          /\ pc' = "exit"
          /\ UNCHANGED items
       \/ \E l \in MapLists :
            /\ items' = l
            /\ IF Len(l) = 0
               THEN mres' = Ok(NoPair) /\ pc' = "exit"
               ELSE mres' = mres /\ pc' = "setup_terminal"
    /\ UNCHANGED <<selected, key, prevSel, shown, wres, termVars, approved, buildVars, listVars>>

\* let mut term = terminal::setup_terminal()?;
\* mutant: a failure of enable_raw_mode is swallowed and the widget is entered
setup_terminal_swallows ==
    /\ pc = "setup_terminal"
    /\ \/ /\ pc' = "entry"
          /\ UNCHANGED <<raw_mode, acquires, mres>>
       \/ /\ raw_mode' = TRUE
          /\ mres' = Err("with_options")
          /\ pc' = "exit"
          /\ UNCHANGED acquires
       \/ /\ raw_mode' = TRUE
          /\ acquires' = acquires + 1
          /\ pc' = "entry"
          /\ UNCHANGED mres
    /\ UNCHANGED <<items, selected, key, prevSel, shown, wres, releases, approved, buildVars, listVars>>
\* mutant: the call of enable_raw_mode is missing
setup_terminal_no_raw ==
    /\ pc = "setup_terminal"
    /\ \/ /\ mres' = Err("with_options")
          /\ pc' = "exit"
          /\ UNCHANGED <<raw_mode, acquires>>
       \/ /\ acquires' = acquires + 1
          /\ pc' = "entry"
          /\ UNCHANGED <<raw_mode, mres>>
    /\ UNCHANGED <<items, selected, key, prevSel, shown, wres, releases, approved, buildVars, listVars>>
setup_terminal ==
    /\ pc = "setup_terminal"
    /\ \/ \* enable_raw_mode()? fails
          /\ mres' = Err("enable_raw_mode")
          /\ pc' = "exit"
          /\ UNCHANGED <<raw_mode, acquires>>
       \/ \* raw mode entered, Terminal::with_options(..)? fails
          /\ raw_mode' = TRUE
          /\ mres' = Err("with_options")
          /\ pc' = "exit"
          /\ UNCHANGED acquires
       \/ /\ raw_mode' = TRUE
          /\ acquires' = acquires + 1
          /\ pc' = "entry"
          /\ UNCHANGED mres
    /\ UNCHANGED <<items, selected, key, prevSel, shown, wres, releases, approved, buildVars, listVars>>

\* let (id, name) = terminal::run_list_selection(&mut term, items)?;
\* the `?` on the value the widget returned
WidgetReturned ==
    /\ pc = "returned"
    /\ IF wres.tag = "Err"
       THEN mres' = wres /\ pc' = "exit"
       ELSE mres' = mres /\ pc' = "restore_terminal"
    /\ UNCHANGED <<items, selected, key, prevSel, shown, wres, termVars, approved, buildVars, listVars>>

\* terminal::restore_terminal(&mut term)?;
restore_terminal ==
    /\ pc = "restore_terminal"
    /\ releases' = releases + 1
    /\ \/ \* terminal.clear()? fails: disable_raw_mode is not reached
          /\ mres' = Err("clear")
          /\ pc' = "exit"
          /\ UNCHANGED raw_mode
       \/ \* disable_raw_mode()? fails
          /\ mres' = Err("disable_raw_mode")
          /\ pc' = "exit"
          /\ UNCHANGED raw_mode
       \/ /\ raw_mode' = FALSE
          /\ pc' = "approve"
          /\ UNCHANGED mres
    /\ UNCHANGED <<items, selected, key, prevSel, shown, wres, acquires, approved, buildVars, listVars>>

\* command::approve_db_authentication(&config, token, id)?; Ok(())
\* mutant: the id of the first candidate is sent, not the selected one
approve_first ==
    /\ pc = "approve"
    /\ approved' = Append(approved, items[1][1])
    /\ \/ mres' = Err("approve_db_authentication")
       \/ mres' = Ok(NoPair)
    /\ pc' = "exit"
    /\ UNCHANGED <<items, selected, key, prevSel, shown, wres, termVars, buildVars, listVars>>
approve_db_authentication ==
    /\ pc = "approve"
    /\ approved' = Append(approved, wres.val[1])
    /\ \/ mres' = Err("approve_db_authentication")
       \/ mres' = Ok(NoPair)
    /\ pc' = "exit"
    /\ UNCHANGED <<items, selected, key, prevSel, shown, wres, termVars, buildVars, listVars>>

\* ----------------------------------------------------------- terminal.rs
\* run_list_selection, before the loop:
\* StatefulList::with_items(items); list.state.select(Some(0));
Entry ==
    /\ pc = "entry"
    /\ selected' = 0
    /\ pc' = "draw"
    /\ UNCHANGED <<items, key, prevSel, shown, wres, termVars, mainVars, buildVars, listVars>>

\* terminal.draw(|f| f.render_stateful_widget(widget, chunks[0], &mut list.state))?
Draw ==
    /\ pc = "draw"
    /\ \/ /\ wres' = Err("draw")
          /\ pc' = "returned"
          /\ UNCHANGED <<selected, shown>>
       \/ /\ selected' = IF render_resets /\ Len(items) = 0 THEN None ELSE selected
          /\ shown' = selected'
          /\ pc' = "poll"
          /\ UNCHANGED wres
    /\ UNCHANGED <<items, key, prevSel, termVars, mainVars, buildVars, listVars>>

\* if event::poll(Duration::from_millis(250))? { .. }
Poll ==
    /\ pc = "poll"
    /\ \/ wres' = Err("poll") /\ pc' = "returned"
       \/ wres' = wres /\ pc' = "read"
       \/ wres' = wres /\ pc' = "draw"
    /\ UNCHANGED <<items, selected, key, prevSel, shown, termVars, mainVars, buildVars, listVars>>

\* event::read()?
Read ==
    /\ pc = "read"
    /\ \/ /\ wres' = Err("read")
          /\ pc' = "returned"
          /\ UNCHANGED key
       \/ \E e \in Events :
            /\ key' = e
            /\ pc' = "dispatch"
            /\ UNCHANGED wres
    /\ UNCHANGED <<items, selected, prevSel, shown, termVars, mainVars, buildVars, listVars>>

\* KeyCode::Char('q') => return Err(Error::msg("Nothing selected"))
\* mutant: the arm is missing, 'q' falls through to `_ => {}`
KeyQ_ignored(sel) == [sel |-> sel, res |-> NoResult]
KeyQ(sel) == [sel |-> sel, res |-> Err("Nothing selected")]

\* KeyCode::Enter => selected().ok_or(..)?, items.get(i).ok_or(..)?, return Ok(selected)
KeyEnter(its, sel) ==
    IF sel = None THEN [sel |-> sel, res |-> Err("Nothing selected")]
    ELSE IF ~InRange(its, sel) THEN [sel |-> sel, res |-> Err("Invalid selection")]
    ELSE [sel |-> sel, res |-> Ok(its[sel + 1])]

\* KeyCode::Char('c') => if key.modifiers == KeyModifiers::CONTROL { return Err(..) }
\* mutant: the modifier test is inverted
KeyC_inverted(sel, e) ==
    IF e.modifiers # "CONTROL"
    THEN [sel |-> sel, res |-> Err("Nothing selected")]
    ELSE [sel |-> sel, res |-> NoResult]
\* mutant: the modifier test is missing, every 'c' cancels
KeyC_any_modifier(sel, e) == [sel |-> sel, res |-> Err("Nothing selected")]
KeyC(sel, e) ==
    IF e.modifiers = "CONTROL"
    THEN [sel |-> sel, res |-> Err("Nothing selected")]
    ELSE [sel |-> sel, res |-> NoResult]

\* what the body of `if let Event::Key(key) = ..` does with event e while
\* sel is selected: [sel: the new selection, res: the value returned, or
\* NoResult when the loop goes on]
\* mutant: the test of key.kind is missing
Handle_any_kind(its, sel, e, checks) ==
    IF e.ev = "Key"
    THEN CASE e.code = "q" -> KeyQ(sel)
           [] e.code = "Enter" -> KeyEnter(its, sel)
           [] e.code = "Left" -> [sel |-> unselect(its, sel), res |-> NoResult]
           [] e.code = "Down" -> [sel |-> next(its, sel, checks), res |-> NoResult]
           [] e.code = "Up" -> [sel |-> previous(its, sel, checks), res |-> NoResult]
           [] e.code = "c" -> KeyC(sel, e)
           [] OTHER -> [sel |-> sel, res |-> NoResult]
    ELSE [sel |-> sel, res |-> NoResult]
Handle(its, sel, e, checks) ==
    IF e.ev = "Key" /\ e.kind = "Press"
    THEN CASE e.code = "q" -> KeyQ(sel)
           [] e.code = "Enter" -> KeyEnter(its, sel)
           [] e.code = "Left" -> [sel |-> unselect(its, sel), res |-> NoResult]
           [] e.code = "Down" -> [sel |-> next(its, sel, checks), res |-> NoResult]
           [] e.code = "Up" -> [sel |-> previous(its, sel, checks), res |-> NoResult]
           [] e.code = "c" -> KeyC(sel, e)
           [] OTHER -> [sel |-> sel, res |-> NoResult]
    ELSE [sel |-> sel, res |-> NoResult]

\* if let Event::Key(key) = .. { if key.kind == KeyEventKind::Press { match key.code {..} } }
\* mutant: the draw is outside the loop, a handled key leads straight to the poll
Dispatch_no_redraw ==
    /\ pc = "dispatch"
    /\ LET h == Handle(items, selected, key, overflow_checks)
       IN  /\ h.sel = Panicked \/ h.sel = None \/ Followed(h.sel)
           /\ prevSel' = selected
           /\ IF h.sel = Panicked
              THEN pc' = "panicked" /\ UNCHANGED <<selected, wres>>
              ELSE /\ selected' = h.sel
                   /\ wres' = h.res
                   /\ pc' = IF h.res = NoResult THEN "poll" ELSE "returned"
    /\ UNCHANGED <<items, key, shown, termVars, mainVars, buildVars, listVars>>
Dispatch ==
    /\ pc = "dispatch"
    /\ LET h == Handle(items, selected, key, overflow_checks)
       IN  /\ h.sel = Panicked \/ h.sel = None \/ Followed(h.sel)
           /\ prevSel' = selected
           /\ IF h.sel = Panicked
              THEN pc' = "panicked" /\ UNCHANGED <<selected, wres>>
              ELSE /\ selected' = h.sel
                   /\ wres' = h.res
                   /\ pc' = IF h.res = NoResult THEN "draw" ELSE "returned"
    /\ UNCHANGED <<items, key, shown, termVars, mainVars, buildVars, listVars>>

Widget == Entry \/ Draw \/ Poll \/ Read \/ Dispatch

Next ==
    \/ CheckDbToken
    \/ setup_terminal
    \/ Widget
    \/ WidgetReturned
    \/ restore_terminal
    \/ approve_db_authentication

Spec == Init /\ [][Next]_vars

\* ------------------------------------------------- the widget on any list
\* a caller holding a terminal in raw mode calls run_list_selection
WidgetInit ==
    /\ pc = "entry"
    /\ items \in Lists
    /\ selected = None
    /\ key = NoEvent
    /\ prevSel = None
    /\ shown = NotShown
    /\ wres = NoResult
    /\ raw_mode = TRUE
    /\ acquires = 1
    /\ releases = 0
    /\ mres = NoResult
    /\ approved = <<>>
    /\ overflow_checks \in BOOLEAN
    /\ render_resets \in BOOLEAN
    /\ ops = <<>>
    /\ sels = <<>>

WidgetNext == Entry \/ Draw \/ Poll \/ Read \/ Dispatch

WidgetSpec == WidgetInit /\ [][WidgetNext]_vars

\* --------------------------------------------------- the list model alone
\* StatefulList::with_items(items), optionally followed by select(Some(0))
ListInit ==
    /\ pc = "list"
    /\ items \in Lists
    /\ selected \in {None, 0}
    /\ key = NoEvent
    /\ prevSel = None
    /\ shown = NotShown
    /\ wres = NoResult
    /\ raw_mode = FALSE
    /\ acquires = 0
    /\ releases = 0
    /\ mres = NoResult
    /\ approved = <<>>
    /\ overflow_checks \in BOOLEAN
    /\ render_resets = FALSE
    /\ ops = <<>>
    /\ sels = <<selected>>

\* one call of list.<op>() whose result is s
Apply(op, s) ==
    /\ pc = "list"
    /\ Len(ops) < MaxOps
    /\ s = Panicked \/ s = None \/ Followed(s)
    /\ ops' = Append(ops, op)
    /\ IF s = Panicked
       THEN pc' = "panicked" /\ UNCHANGED <<selected, sels>>
       ELSE pc' = pc /\ selected' = s /\ sels' = Append(sels, s)
    /\ UNCHANGED <<items, key, prevSel, shown, wres, termVars, mainVars, buildVars>>

ListNextOp == Apply("next", next(items, selected, overflow_checks))
ListPreviousOp == Apply("previous", previous(items, selected, overflow_checks))
ListUnselectOp == Apply("unselect", unselect(items, selected))

ListNext == ListNextOp \/ ListPreviousOp \/ ListUnselectOp

ListSpec == ListInit /\ [][ListNext]_vars

\* ------------------------------------------------------------ properties
\* the last event read is a press of key code c
IsPress(c) == key.ev = "Key" /\ key.kind = "Press" /\ key.code = c
IsCtrlC == IsPress("c") /\ key.modifiers = "CONTROL"
EnterPress == [ev |-> "Key", code |-> "Enter", modifiers |-> "NONE", kind |-> "Press"]

\* C1: when the terminal was acquired and a draw, poll or read then failed
\* inside the loop, restore_terminal has been attempted and raw mode is off
\* by the time the error has reached the caller of the selection flow.
C1_ReleaseBeforeError ==
    (pc = "exit" /\ acquires > 0 /\ wres.tag = "Err" /\ wres.msg \in {"draw", "poll", "read"})
        => (releases > 0 /\ ~raw_mode)

\* C2: a run that ended with a selected pair or with a cancellation ('q',
\* Ctrl+C) has performed exactly one acquire and exactly one release when it
\* returns to its caller.
C2_OneAcquireOneRelease ==
    (pc = "exit" /\ (wres.tag = "Ok" \/ (wres = Err("Nothing selected") /\ (IsPress("q") \/ IsCtrlC))))
        => (acquires = 1 /\ releases = 1)

\* C3: in every state of the widget, for every candidate list, the empty one
\* included, the selection index is absent or within 0 .. length - 1.
C3_IndexInBounds == selected = None \/ InRange(items, selected)

\* C4: from any RUNNING state, a press of 'q' ends the loop with the
\* cancellation outcome, never with a selected pair.
C4_QCancels ==
    [][(pc = "dispatch" /\ IsPress("q"))
        => (pc' = "returned" /\ wres' = Err("Nothing selected") /\ wres'.tag # "Ok")]_vars

\* a 'q' pressed while nothing was selected, on a two-element list
C4_Witness ==
    /\ pc = "returned" /\ IsPress("q") /\ prevSel = None /\ Len(items) = 2
    /\ wres = Err("Nothing selected")

\* C5: from any RUNNING state, a press of 'c' with exactly the Control
\* modifier ends the loop with the outcome a press of 'q' gives there.
C5_CtrlCCancels ==
    [][(pc = "dispatch" /\ IsCtrlC)
        => /\ pc' = "returned"
           /\ wres'.tag = "Err"
           /\ wres' = Handle(items, selected, [key EXCEPT !.code = "q"], overflow_checks).res]_vars

\* Ctrl+C pressed while the second of two elements was selected
C5_Witness ==
    /\ pc = "returned" /\ IsCtrlC /\ Len(items) = 2 /\ prevSel = 1 /\ selected = 1
    /\ wres = Err("Nothing selected")

\* C6: a press of Enter while index i is selected returns exactly the pair
\* at position i of the supplied list, and the list is unchanged.
C6_EnterReturnsPair ==
    [][(pc = "dispatch" /\ IsPress("Enter") /\ selected # None)
        => /\ pc' = "returned"
           /\ items' = items
           /\ InRange(items, selected)
           /\ wres' = Ok(items[selected + 1])]_vars

\* C7: a press of Enter while no index is selected is a no-op: the loop goes
\* on, the index stays absent, nothing is returned.
C7_EnterWithoutSelectionNoOp ==
    [][(pc = "dispatch" /\ IsPress("Enter") /\ selected = None)
        => (pc' = "draw" /\ selected' = None /\ wres' = NoResult)]_vars

\* C8: on a non-empty list of length N, N consecutive calls of next() from a
\* state with an index selected bring the index back to where it started;
\* started at index 0, Enter then returns the first pair.
C8_NextCyclic ==
    LET N == Len(items)
    IN  \A j \in 1..Len(sels) :
            (/\ N > 0
             /\ sels[j] # None
             /\ j + N <= Len(sels)
             /\ \A k \in j..(j + N - 1) : ops[k] = "next")
            => /\ sels[j + N] = sels[j]
               /\ (sels[j] = 0
                     => Handle(items, sels[j + N], EnterPress, overflow_checks).res = Ok(items[1]))

\* Down, Down, Down on a three-element list, started at index 0
C8_Witness ==
    Len(items) = 3 /\ ops = <<"next", "next", "next">> /\ sels = <<0, 1, 2, 0>>

\* C9 as stated: on a non-empty list, from any selection state, index present
\* or absent, next() then previous() restores the state, and so does
\* previous() then next().
C9_InverseFromAnyState ==
    \A j \in 1..Len(sels) :
        (/\ Len(items) > 0
         /\ j + 2 <= Len(sels)
         /\ \/ ops[j] = "next" /\ ops[j + 1] = "previous"
            \/ ops[j] = "previous" /\ ops[j + 1] = "next")
        => sels[j + 2] = sels[j]

\* C9 amended: on a non-empty list, from any state with an index selected,
\* next() then previous() restores the index, and so does previous() then
\* next().
C9_InverseFromSelected ==
    \A j \in 1..Len(sels) :
        (/\ Len(items) > 0
         /\ sels[j] # None
         /\ j + 2 <= Len(sels)
         /\ \/ ops[j] = "next" /\ ops[j + 1] = "previous"
            \/ ops[j] = "previous" /\ ops[j + 1] = "next")
        => sels[j + 2] = sels[j]

\* previous() wraps from 0 to the last of three, next() wraps back
C9_Witness ==
    Len(items) = 3 /\ ops = <<"previous", "next">> /\ sels = <<0, 2, 0>>

\* C10: on a non-empty list of length N with index i selected, a press of
\* Down sets the index to i + 1, or to 0 from the last position, a press of
\* Up sets it to i - 1, or to N - 1 from 0, and the loop goes on.
C10_DownUpStep ==
    [][(pc = "dispatch" /\ key.ev = "Key" /\ key.kind = "Press"
            /\ Len(items) > 0 /\ selected # None)
        => /\ (key.code = "Down")
                => /\ selected' = (IF selected = Len(items) - 1 THEN 0 ELSE selected + 1)
                   /\ pc' = "draw"
           /\ (key.code = "Up")
                => /\ selected' = (IF selected = 0 THEN Len(items) - 1 ELSE selected - 1)
                   /\ pc' = "draw"]_vars

\* Up pressed at index 0 of a three-element list
C10_Witness ==
    /\ pc = "draw" /\ IsPress("Up") /\ Len(items) = 3
    /\ prevSel = 0 /\ selected = 2 /\ wres = NoResult

\* C11: from any selection state, unselect() followed by next() yields
\* index 0.
C11_UnselectThenNext ==
    \A j \in 1..Len(sels) :
        (/\ j + 2 <= Len(sels)
         /\ ops[j] = "unselect"
         /\ ops[j + 1] = "next")
        => (sels[j + 1] = None /\ sels[j + 2] = 0)

\* Left then Down from the last of three elements
C11_Witness ==
    /\ Len(items) = 3 /\ ops = <<"previous", "unselect", "next">>
    /\ sels = <<0, 2, None, 0>>

\* C12: on an empty list, next(), previous() and unselect(), in any order and
\* any number, never fail (no panic, no underflow) and never produce a
\* selected index.
C12_EmptyListOpsHarmless ==
    Len(items) = 0
        => /\ pc # "panicked"
           /\ \A j \in 2..Len(sels) : sels[j] = None

\* C13: on an empty list, every key press other than 'q' and Ctrl+C (Enter,
\* Down, Up, Left included) leaves the loop RUNNING with nothing returned,
\* and 'q' yields the cancellation outcome.
C13_EmptyListKeys ==
    [][(pc = "dispatch" /\ Len(items) = 0 /\ key.ev = "Key" /\ key.kind = "Press")
        => IF IsPress("q") \/ IsCtrlC
           THEN pc' = "returned" /\ wres' = Err("Nothing selected")
           ELSE pc' = "draw" /\ wres' = NoResult]_vars

\* C14: the widget starts RUNNING with index 0 on a non-empty list and with
\* no index on an empty list.
C14_InitialIndex ==
    [][(pc = "entry")
        => /\ pc' = "draw"
           /\ wres' = NoResult
           /\ selected' = (IF Len(items) > 0 THEN 0 ELSE None)]_vars

\* C15: the outcome returned on cancellation is returned by nothing but a
\* cancellation: a call that returned it was ended by 'q' or Ctrl+C, not by
\* Enter, a selected pair or a draw / poll / read failure.
C15_CancelledDistinguishable ==
    (pc \in {"returned", "exit", "restore_terminal", "approve"} /\ wres = Err("Nothing selected"))
        => (IsPress("q") \/ IsCtrlC)

\* C16: when the widget returned the cancellation outcome, the command skips
\* the approval call and does not itself fail with an error.
C16_CancelNonFatal ==
    (pc = "exit" /\ wres = Err("Nothing selected") /\ (IsPress("q") \/ IsCtrlC))
        => (approved = <<>> /\ mres.tag # "Err")

\* C17: when raw mode cannot be entered, setup_terminal fails and main returns
\* that failure at once: the loop is not entered (nothing drawn, polled, read
\* or returned by the widget), nothing is approved, no acquisition is counted
\* and none is tried again, main being over.
C17_RawModeFailureSurfaced ==
    [][/\ pc # "exit"
       /\ (pc = "setup_terminal" /\ ~raw_mode')
            => /\ pc' = "exit"
               /\ mres'.tag = "Err"
               /\ acquires' = 0 /\ releases' = 0
               /\ selected' = None /\ key' = NoEvent /\ wres' = NoResult
               /\ approved' = <<>>]_vars

\* enable_raw_mode failed for a two-element list
C17_Witness ==
    /\ pc = "exit" /\ mres = Err("enable_raw_mode") /\ Len(items) = 2
    /\ ~raw_mode /\ acquires = 0 /\ wres = NoResult

\* C18: a press of a key other than Down, Up, Left, Enter, 'q' and Ctrl+C
\* (another character, or 'c' whose modifiers are not exactly Control) is a
\* no-op: the loop goes on, index and list are unchanged.
C18_OtherKeysNoOp ==
    [][(/\ pc = "dispatch" /\ key.ev = "Key" /\ key.kind = "Press"
        /\ \/ key.code = "x"
           \/ key.code = "c" /\ key.modifiers # "CONTROL")
        => /\ pc' = "draw"
           /\ wres' = NoResult
           /\ selected' = selected
           /\ items' = items]_vars

\* a plain 'c' pressed while the second of two elements was selected
C18_Witness ==
    /\ pc = "draw" /\ IsPress("c") /\ key.modifiers = "NONE"
    /\ Len(items) = 2 /\ prevSel = 1 /\ selected = 1 /\ wres = NoResult

\* C19: an event that is not a key press (a key release or repeat of any
\* key, or an event that is no key event) leaves the loop RUNNING and the
\* index unchanged.
C19_OnlyPressesDispatched ==
    [][(pc = "dispatch" /\ ~(key.ev = "Key" /\ key.kind = "Press"))
        => /\ pc' = "draw"
           /\ wres' = NoResult
           /\ selected' = selected]_vars

\* the release of 'q' was read while the only element was selected
C19_Witness ==
    /\ pc = "draw" /\ key.ev = "Key" /\ key.code = "q" /\ key.kind = "Release"
    /\ Len(items) = 1 /\ prevSel = 0 /\ selected = 0 /\ wres = NoResult

\* C20: a poll that times out leaves the loop RUNNING with the index
\* unchanged, and without an I/O failure the call leaves RUNNING only by a
\* press of Enter with an index selected, of 'q' or of Ctrl+C.
C20_LeavesOnlyByDefinedKey ==
    [][/\ (pc = "poll" /\ pc' = "draw") => (selected' = selected /\ wres' = NoResult)
       /\ (/\ pc \in {"draw", "poll", "read", "dispatch"}
           /\ pc' \notin {"draw", "poll", "read", "dispatch"}
           /\ wres' \notin {Err("draw"), Err("poll"), Err("read")})
            => /\ pc = "dispatch"
               /\ \/ IsPress("Enter") /\ selected # None
                  \/ IsPress("q")
                  \/ IsCtrlC]_vars

\* C21: in the database-login flow every draw and every poll (and read) of
\* the widget happens while raw mode is held: after the one successful
\* setup_terminal and before any restore_terminal.
C21_DrawPollInRawMode ==
    (pc \in {"draw", "poll", "read", "dispatch"})
        => (raw_mode /\ acquires = 1 /\ releases = 0)

\* a poll in a later iteration, after a key was handled
C21_Witness ==
    /\ pc = "poll" /\ IsPress("Down") /\ shown = 1 /\ Len(items) = 2
    /\ raw_mode /\ acquires = 1 /\ releases = 0

\* C22: in the database-login flow the approval request is sent at most
\* once, only after the widget returned a selected pair and the terminal was
\* released, with the key of exactly that pair; never after a cancellation
\* or a widget error.
C22_ApprovalOnlyOfSelected ==
    /\ Len(approved) <= 1
    /\ approved # <<>>
        => /\ wres.tag = "Ok"
           /\ IsPress("Enter")
           /\ InRange(items, selected)
           /\ wres.val = items[selected + 1]
           /\ approved[1] = wres.val[1]
           /\ releases = 1
           /\ ~raw_mode

\* the second of three candidates was selected and approved
C22_Witness ==
    /\ pc = "exit" /\ Len(items) = 3 /\ selected = 1
    /\ approved = <<items[2][1]>> /\ mres = Ok(NoPair)

\* C23: every poll follows, in its iteration, a draw of the current model:
\* while polling, reading or dispatching, the selection is the one the last
\* draw highlighted, and a pair returned on Enter is the highlighted one.
C23_DrawnBeforePolled ==
    /\ (pc \in {"poll", "read", "dispatch"}) => (shown # NotShown /\ shown = selected)
    /\ (wres.tag = "Ok")
        => /\ InRange(items, shown)
           /\ wres.val = items[shown + 1]

\* Enter returned the third element, highlighted after an Up from index 0
C23_Witness ==
    /\ pc = "returned" /\ IsPress("Enter") /\ Len(items) = 3
    /\ shown = 2 /\ wres = Ok(items[3])

\* C24: when setup_terminal returns an error, whether enable_raw_mode failed
\* or the construction of the terminal failed after it, raw mode is off.
C24_FailedSetupLeavesNoRawMode ==
    (pc = "exit" /\ mres \in {Err("enable_raw_mode"), Err("with_options")})
        => ~raw_mode

\* C25: after restore_terminal has returned, with success or with an error,
\* raw mode is off.
C25_RestoreAlwaysLeavesRawMode ==
    (releases > 0) => ~raw_mode

\* C26: in the database-login flow, when the list obtained from the server is
\* empty, main returns Ok without acquiring the terminal, drawing, polling or
\* approving; the widget only ever runs on a non-empty list.
C26_EmptyListSkipsWidget ==
    /\ (pc \in {"setup_terminal", "entry", "draw", "poll", "read", "dispatch", "returned"})
        => Len(items) > 0
    /\ (Len(items) = 0 /\ pc # "check_db_token" /\ mres # Err("check_db_token"))
        => /\ pc = "exit"
           /\ mres = Ok(NoPair)
           /\ acquires = 0 /\ releases = 0 /\ ~raw_mode
           /\ shown = NotShown /\ key = NoEvent /\ wres = NoResult
           /\ approved = <<>>

\* the server returned no database
C26_Witness ==
    /\ pc = "exit" /\ items = <<>> /\ mres = Ok(NoPair)
    /\ acquires = 0 /\ ~raw_mode /\ approved = <<>>

\* C27 as stated: on a non-empty list of length N with no index selected,
\* previous() selects the last position N - 1.
C27_PreviousFromNoneSelectsLast ==
    \A j \in 1..Len(sels) :
        (/\ Len(items) > 0
         /\ j + 1 <= Len(sels)
         /\ sels[j] = None
         /\ ops[j] = "previous")
        => sels[j + 1] = Len(items) - 1

\* C27 amended: on a non-empty list with no index selected, previous()
\* selects position 0, so that Enter then returns the first pair.
C27_PreviousFromNoneSelectsFirst ==
    \A j \in 1..Len(sels) :
        (/\ Len(items) > 0
         /\ j + 1 <= Len(sels)
         /\ sels[j] = None
         /\ ops[j] = "previous")
        => /\ sels[j + 1] = 0
           /\ Handle(items, sels[j + 1], EnterPress, overflow_checks).res = Ok(items[1])

\* unselect() then previous() on a three-element list
C27_Witness ==
    /\ Len(items) = 3 /\ ops = <<"next", "unselect", "previous">>
    /\ sels = <<0, 1, None, 0>>

====
